---- MODULE Spec2Model ----
(***************************************************************************)
(* Connectivity orchestration of the p2p chat client:                       *)
(*   - P2PClient (p2p-client/src/network/client.rs): the command/event      *)
(*     loop and the friend presence scheduler;                              *)
(*   - NatTraversal (p2p-client/src/network/nat_traversal.rs): the relay    *)
(*     retry coordinator.                                                   *)
(* Strings that the code inspects (peer identifiers, which are trimmed and  *)
(* parsed) are sequences of characters.  Wall-clock values (checked_at,     *)
(* timestamp) and the UUID of a chat message are left out of the event      *)
(* records: no handler branches on them.  Log lines are not modelled.       *)
(* The Vietnamese status texts are written without diacritics.              *)
(* Commands are handled as the UI submits them: the AddFriend commands are  *)
(* the ones sidebar::render produces from the text typed by the user.       *)
(* SpecLoop puts the command channel between the UI and the loop, and      *)
(* SpecBackpressure the bounded event channel between the handlers and the  *)
(* UI; the event channel is modelled by its occupancy.                      *)
(*   - AppState (p2p-client/src/ui/state.rs): what the UI keeps of the     *)
(*     events ChatApp::handle_network_events takes from the event channel;  *)
(*     SpecUi and SpecDebugFlood feed it the events the handlers can send.  *)
(***************************************************************************)
EXTENDS Naturals, Sequences, FiniteSets, TLC

VARIABLES
    pc,                      \* position of P2PClient::run: "new" | "loop"
    enable_chat,             \* P2PClient.enable_chat
    friend_ids,              \* P2PClient.friend_ids (HashSet<String>)
    friend_queue,            \* P2PClient.friend_queue (VecDeque<String>)
    pending_friend_queries,  \* P2PClient.pending_friend_queries (QueryId -> String)
    next_query_id,           \* the engine's next fresh kad::QueryId
    n_commands,              \* commands handled so far
    handled,                 \* the item the loop handled last
    emitted,                 \* events sent on event_sender by the last handler
    started,                 \* history: lookups dispatched per id
    resolved,                \* history: lookup results handled per id
    added,                   \* history: trimmed ids an AddFriend command was handled for
    failed_direct_connections,  \* NatTraversal.failed_direct_connections
    relay_peers,                \* NatTraversal.relay_peers
    pending_relay_retries,      \* NatTraversal.pending_relay_retries (PeerId -> Vec<Multiaddr>)
    bootstrap_peers,            \* NatTraversal.bootstrap_peers (peer ids)
    nat_call,                   \* the coordinator call made last
    nat_dials,                  \* addresses passed to swarm.dial by the last call
    command_channel,         \* the UI -> network mpsc channel (main.rs cmd_tx/cmd_rx)
    n_submitted,             \* history: commands the command channel accepted
    cmd_closed,              \* every command sender has been dropped
    handled_seq,             \* history: submission number of the command handled last
    n_dropped,               \* history: commands try_send refused
    event_channel,           \* occupancy of the network -> UI mpsc channel
    sending,                 \* events the running handler has still to send
    connections,             \* peers the swarm holds an established connection to
    messages,                \* AppState.messages (Vec<ChatMessage>)
    peers,                   \* AppState.peers (Vec<String>)
    debug_events,            \* AppState.debug_events (Vec<DebugEvent>)
    peer_last_seen,          \* AppState.peer_last_seen: the peers it has a time for
    friends,                 \* AppState.friends (BTreeMap<String, PeerStatus>)
    ui_pc,                   \* the UI thread: "running" | "panicked"
    ui_event,                \* the event handle_network_events matched last
    n_ui_events,             \* history: events the UI has taken from the channel
    n_debug_added,           \* history: calls of add_debug_event
    last_peer_event          \* history: the last connect/disconnect event per peer

client_vars == <<pc, enable_chat, friend_ids, friend_queue, pending_friend_queries,
                 next_query_id, n_commands, handled, emitted, started,
                 resolved, added>>
nat_vars == <<failed_direct_connections, relay_peers, pending_relay_retries,
              bootstrap_peers, nat_call, nat_dials>>
loop_vars == <<command_channel, n_submitted, cmd_closed, handled_seq, n_dropped, event_channel,
               sending, connections>>
ui_vars == <<messages, peers, debug_events, peer_last_seen, friends, ui_pc, ui_event,
             n_ui_events, n_debug_added, last_peer_event>>
vars == <<client_vars, nat_vars, loop_vars, ui_vars>>

----------------------------------------------------------------------------
(* Bounds and input universes *)

MaxCommands == 2
\* Events the UI takes in a session of SpecUi.
MaxUiEvents == 3
\* Events the UI takes in a session of SpecDebugFlood, and how many of the
\* first ones are arbitrary.
MaxFlood == 103
FloodPrefix == 2

\* Strings for which PeerId::from_str succeeds.
ValidPeerIds == {<<"a">>, <<"b">>, <<"c">>, <<"d">>}
\* Non-blank strings for which PeerId::from_str fails.
InvalidPeerIds == {<<"!">>}
LocalPeerId == <<"a">>
WhiteSpace == {" "}

\* Identifier strings as they can appear in data/friends.json.
DiskIds == ValidPeerIds \cup InvalidPeerIds
\* Texts the user can have typed into the friend input box (AppState.friend_input).
FriendInputs ==
    {<<" ">>, <<"a">>, <<" ", "b", " ">>, <<"c">>, <<"d">>, <<"!", " ">>}
\* The sets of connected peers the coordinator is handed (dialed_peers).
DialedSets == {{}, {<<"a">>}, {<<"b">>, <<"c">>}}
Ids == DiskIds
BaseOrder == <<<<"a">>, <<"b">>, <<"c">>, <<"d">>, <<"!">>>>
Texts == {"hello", ""}
\* Remote peers the swarm connects to.
EnginePeers == {<<"b">>, <<"c">>}
\* Payloads of gossipsub messages from remote peers: the JSON of a ChatMessage
\* (its sender field is whatever text the publisher wrote: the publisher's
\* identifier, the identifier of this node, a short name), JSON of another
\* shape, and bytes that are no JSON.
GossipPayloads ==
    {[format |-> "ChatMessage", sender |-> <<"b">>, content |-> "hello"],
     [format |-> "ChatMessage", sender |-> LocalPeerId, content |-> "hello"],
     [format |-> "ChatMessage", sender |-> <<"b", "o", "b">>, content |-> "hello"],
     [format |-> "json", sender |-> <<>>, content |-> ""],
     [format |-> "bytes", sender |-> <<>>, content |-> ""]}
\* Multiaddr protocols the parser knows.
Protocols == {"ip4", "tcp", "p2p"}
\* Trimmed texts of the peer address box, as their "/"-separated components.
Addresses ==
    {<<[proto |-> "ip4", arg |-> <<"1">>], [proto |-> "tcp", arg |-> <<"2">>]>>,
     <<[proto |-> "ip4", arg |-> <<"1">>], [proto |-> "tcp", arg |-> <<"2">>],
       [proto |-> "p2p", arg |-> <<"b">>]>>,
     <<[proto |-> "peer", arg |-> <<"b">>]>>}

MAX_CONCURRENT_FRIEND_QUERIES == 3
\* mpsc::channel(100) for commands and for events.
COMMAND_CHANNEL_CAPACITY == 100
EVENT_CHANNEL_CAPACITY == 100

----------------------------------------------------------------------------
(* Pure helpers *)

RECURSIVE TrimStart(_)
TrimStart(s) ==
    IF s # <<>> /\ Head(s) \in WhiteSpace THEN TrimStart(Tail(s)) ELSE s

RECURSIVE TrimEnd(_)
TrimEnd(s) ==
    IF s # <<>> /\ s[Len(s)] \in WhiteSpace THEN TrimEnd(SubSeq(s, 1, Len(s) - 1)) ELSE s

\* str::trim
Trim(s) == TrimEnd(TrimStart(s))

\* PeerId::from_str(s).is_ok()
IsPeerId(s) == s \in ValidPeerIds

Range(f) == {f[x] : x \in DOMAIN f}

RECURSIVE Filter(_, _)
Filter(q, S) ==
    IF q = <<>> THEN <<>>
    ELSE IF Head(q) \in S THEN <<Head(q)>> \o Filter(Tail(q), S) ELSE Filter(Tail(q), S)

\* The orders in which a HashSet holding S is taken to iterate: the rotations
\* of S listed in BaseOrder.
IterationOrders(S) ==
    LET q == Filter(BaseOrder, S)
        n == Len(q)
    IN {[i \in 1..n |-> q[((i + k - 1) % n) + 1]] : k \in 0..n}

Bump(h, p) == [h EXCEPT ![p] = @ + 1]

RECURSIVE BumpAll(_, _)
BumpAll(h, ps) ==
    IF ps = <<>> THEN h ELSE BumpAll(Bump(h, Head(ps)), Tail(ps))

FriendStatus(peer_id, online, message) ==
    [type |-> "FriendStatus", peer_id |-> peer_id, online |-> online, message |-> message]

MessageReceived(sender, content) ==
    [type |-> "MessageReceived", sender |-> sender, content |-> content]

\* A formatted message: the format string and the values substituted into it.
Fmt(tmpl, args) == [tmpl |-> tmpl, args |-> args]

----------------------------------------------------------------------------
(* Friend presence scheduler (client.rs) *)

\* Mutant: a new id is pushed at the head of the queue.
enqueue_friend_check_push_front(queue, pending, peer_id) ==
    IF \E q \in DOMAIN pending : pending[q] = peer_id
    THEN queue
    ELSE IF \E i \in DOMAIN queue : queue[i] = peer_id
         THEN queue
         ELSE <<peer_id>> \o queue

\* Mutant: the id is pushed whether or not it is queued or running.
enqueue_friend_check_unchecked(queue, pending, peer_id) ==
    Append(queue, peer_id)

\* Mutant: the check for a running query is missing.
enqueue_friend_check_queue_only(queue, pending, peer_id) ==
    IF \E i \in DOMAIN queue : queue[i] = peer_id
    THEN queue
    ELSE Append(queue, peer_id)

\* enqueue_friend_check: no-op when the id has a running query or is queued.
enqueue_friend_check(queue, pending, peer_id) ==
    IF \E q \in DOMAIN pending : pending[q] = peer_id
    THEN queue
    ELSE IF \E i \in DOMAIN queue : queue[i] = peer_id
         THEN queue
         ELSE Append(queue, peer_id)

\* Mutant: off by one in the loop condition.
slot_free_off_by_one(pending) ==
    Cardinality(DOMAIN pending) <= MAX_CONCURRENT_FRIEND_QUERIES

\* The loop condition of try_start_next_friend_queries.
slot_free(pending) ==
    Cardinality(DOMAIN pending) < MAX_CONCURRENT_FRIEND_QUERIES

\* Mutant: the lookup is recorded whether or not the id parses.
start_friend_lookup_unparsed(sch, peer_id) ==
    [sch EXCEPT !.pending = [q \in DOMAIN sch.pending \cup {sch.next} |->
                                 IF q = sch.next THEN peer_id ELSE sch.pending[q]],
                !.next = sch.next + 1,
                !.log = Append(sch.log, peer_id)]

\* start_friend_lookup on the scheduler state
\* sch = [queue, pending, next (fresh QueryId), log (ids dispatched)].
start_friend_lookup(sch, peer_id) ==
    IF IsPeerId(peer_id)
    THEN [sch EXCEPT !.pending = [q \in DOMAIN sch.pending \cup {sch.next} |->
                                      IF q = sch.next THEN peer_id ELSE sch.pending[q]],
                     !.next = sch.next + 1,
                     !.log = Append(sch.log, peer_id)]
    ELSE sch

RECURSIVE try_start_next_friend_queries(_)
try_start_next_friend_queries(sch) ==
    IF slot_free(sch.pending) /\ sch.queue # <<>>
    THEN try_start_next_friend_queries(
             start_friend_lookup([sch EXCEPT !.queue = Tail(sch.queue)], Head(sch.queue)))
    ELSE sch

\* Mutant: every friend id is pushed, queued already or not.
enqueue_all_friend_checks_unchecked(queue, pending, all_ids) ==
    queue \o all_ids

RECURSIVE enqueue_all_friend_checks(_, _, _)
\* all_ids: friend_ids in the order the HashSet iterates them.
enqueue_all_friend_checks(queue, pending, all_ids) ==
    IF all_ids = <<>> THEN queue
    ELSE enqueue_all_friend_checks(
             enqueue_friend_check(queue, pending, Head(all_ids)), pending, Tail(all_ids))

\* emit_initial_friend_placeholders, ids in HashSet iteration order.
emit_initial_friend_placeholders(all_ids) ==
    [i \in DOMAIN all_ids |->
        FriendStatus(all_ids[i], FALSE,
                     Fmt("Dang cho kiem tra trang thai qua bootstrap...", <<>>))]

\* The events handle_add_friend sends for a trimmed, non-empty id.
add_friend_events(peer_id) ==
    IF IsPeerId(peer_id)
    THEN <<FriendStatus(peer_id, FALSE, Fmt("Dang kiem tra qua bootstrap node...", <<>>))>>
    ELSE <<FriendStatus(peer_id, FALSE, Fmt("PeerId khong hop le: {err}", <<>>))>>

\* Mutant: the id is pushed without consulting queue or running queries.
add_friend_queue_unchecked(queue, pending, peer_id) ==
    IF IsPeerId(peer_id) THEN Append(queue, peer_id) ELSE queue

\* Mutant: the id is enqueued whether or not it parses.
add_friend_queue_unvalidated(queue, pending, peer_id) ==
    enqueue_friend_check(queue, pending, peer_id)

\* The queue handle_add_friend passes on to try_start_next_friend_queries.
add_friend_queue(queue, pending, peer_id) ==
    IF IsPeerId(peer_id) THEN enqueue_friend_check(queue, pending, peer_id) ELSE queue

\* Mutant: the local echo is sent whatever publish returned.
send_message_events_always(publish, content) ==
    <<MessageReceived(LocalPeerId, content)>>

\* The events the SendMessage arm sends; publish is "ok" or "err".
send_message_events(publish, content) ==
    IF publish = "ok" THEN <<MessageReceived(LocalPeerId, content)>> ELSE <<>>

\* Mutant: any non-empty answer counts as found.
lookup_found_nonempty(peer_id, res) ==
    res.ok /\ res.peers # {}

\* handle_friend_lookup_result: res = [ok, peers]; ok = FALSE is the Timeout error.
lookup_found(peer_id, res) ==
    res.ok /\ IsPeerId(peer_id) /\ peer_id \in res.peers

\* Mutant: the timeout message drops its count.
lookup_message_timeout_uncounted(peer_id, res) ==
    IF res.ok
    THEN IF lookup_found(peer_id, res)
         THEN Fmt("Da tim thay trong DHT ({} peers gan nhat)", <<Cardinality(res.peers)>>)
         ELSE IF res.peers = {}
              THEN Fmt("Khong tim thay peer trong DHT", <<>>)
              ELSE Fmt("Khong tim thay, nhung co {} peers gan nhat tra ve",
                       <<Cardinality(res.peers)>>)
    ELSE Fmt("Timeout khi truy van bootstrap ({} peers gan nhat)", <<>>)

lookup_message(peer_id, res) ==
    IF res.ok
    THEN IF lookup_found(peer_id, res)
         THEN Fmt("Da tim thay trong DHT ({} peers gan nhat)", <<Cardinality(res.peers)>>)
         ELSE IF res.peers = {}
              THEN Fmt("Khong tim thay peer trong DHT", <<>>)
              ELSE Fmt("Khong tim thay, nhung co {} peers gan nhat tra ve",
                       <<Cardinality(res.peers)>>)
    ELSE Fmt("Timeout khi truy van bootstrap ({} peers gan nhat)", <<Cardinality(res.peers)>>)

\* Mutant: the Timeout arm sends nothing.
handle_friend_lookup_result_ok_only(peer_id, res) ==
    IF res.ok
    THEN <<FriendStatus(peer_id, lookup_found(peer_id, res), lookup_message(peer_id, res))>>
    ELSE <<>>

handle_friend_lookup_result(peer_id, res) ==
    <<FriendStatus(peer_id, lookup_found(peer_id, res), lookup_message(peer_id, res))>>

LookupResults ==
    {[ok |-> TRUE, peers |-> ps] : ps \in {{}, {<<"a">>}, {<<"a">>, <<"b">>}}}
    \cup {[ok |-> FALSE, peers |-> ps] : ps \in {{}, {<<"a">>}}}

NoHistory == [p \in Ids |-> 0]

----------------------------------------------------------------------------
(* Orchestration loop: the channels, and the handlers outside the scheduler *)

PeerConnected(peer_id) == [type |-> "PeerConnected", peer_id |-> peer_id]

PeerDisconnected(peer_id) == [type |-> "PeerDisconnected", peer_id |-> peer_id]

\* Sender::try_send on a channel of the given capacity: a full channel drops the item.
try_send(channel, capacity, item) ==
    IF Len(channel) < capacity THEN Append(channel, item) ELSE channel

\* Mutant: the receiver hands out the newest command.
recv_newest(channel) ==
    [item |-> channel[Len(channel)], rest |-> SubSeq(channel, 1, Len(channel) - 1)]

\* Receiver::recv on a non-empty channel: the oldest item, and what stays queued.
recv(channel) == [item |-> Head(channel), rest |-> Tail(channel)]

\* Mutant: an empty channel is taken for a closed one.
recv_none_when_empty(closed, channel) == channel = <<>>

\* Receiver::recv yields None: every sender is dropped and nothing is queued.
recv_none(closed, channel) == closed /\ channel = <<>>

\* Mutant: a payload that does not decode is replaced by a default message.
gossip_message_events_default(data) ==
    IF data.format = "ChatMessage"
    THEN <<MessageReceived(data.sender, data.content)>>
    ELSE <<MessageReceived(<<>>, "")>>

\* The Gossipsub Message arm: serde_json::from_slice::<ChatMessage>, then the event.
gossip_message_events(data) ==
    IF data.format = "ChatMessage"
    THEN <<MessageReceived(data.sender, data.content)>>
    ELSE <<>>

\* Mutant: the friend status is sent for every peer.
connection_events_unfiltered(peer_id, friend_set, established) ==
    IF established
    THEN <<PeerConnected(peer_id),
           FriendStatus(peer_id, TRUE, Fmt("Da ket noi truc tiep toi ban", <<>>))>>
    ELSE <<PeerDisconnected(peer_id),
           FriendStatus(peer_id, FALSE, Fmt("Ket noi da dong", <<>>))>>

\* The ConnectionEstablished and ConnectionClosed arms.
connection_events(peer_id, friend_set, established) ==
    IF established
    THEN <<PeerConnected(peer_id)>>
         \o (IF peer_id \in friend_set
             THEN <<FriendStatus(peer_id, TRUE, Fmt("Da ket noi truc tiep toi ban", <<>>))>>
             ELSE <<>>)
    ELSE <<PeerDisconnected(peer_id)>>
         \o (IF peer_id \in friend_set
             THEN <<FriendStatus(peer_id, FALSE, Fmt("Ket noi da dong", <<>>))>>
             ELSE <<>>)

\* address.parse::<Multiaddr>().is_ok()
multiaddr_parses(address) == \A i \in DOMAIN address : address[i].proto \in Protocols

\* The peer kad.add_address is called for: the one of a trailing /p2p component.
connect_kad_peers(address) ==
    IF multiaddr_parses(address) /\ address[Len(address)].proto = "p2p"
    THEN {address[Len(address)].arg}
    ELSE {}

\* A NetworkCommand: its variant and the variant's field, the others left empty.
NetworkCommand(kind, peer_id, content, address) ==
    [kind |-> kind, peer_id |-> peer_id, content |-> content, address |-> address]

\* The commands the UI submits (ChatApp::add_friend, send_command, connect_to_peer).
UiCommands ==
    {NetworkCommand("AddFriend", p, "", <<>>) : p \in {<<"c">>, <<"!">>}}
    \cup {NetworkCommand("SendMessage", <<>>, "hello", <<>>)}
    \cup {NetworkCommand("ConnectToPeer", <<>>, "", a) : a \in Addresses}

----------------------------------------------------------------------------
(* NAT traversal coordinator (nat_traversal.rs) *)

\* Peers the coordinator is called about, and the peers of the bootstrap list.
NatPeers == {<<"a">>, <<"b">>, <<"c">>}
BootstrapCandidates == {<<"a">>, <<"b">>}

\* Mutant: relay and target change places in the address.
relay_addr_swapped(relay_id, peer_id) == [relay |-> peer_id, circuit_to |-> relay_id]

\* "/p2p/<relay_id>/p2p-circuit/p2p/<peer_id>"
relay_addr(relay_id, peer_id) == [relay |-> relay_id, circuit_to |-> peer_id]

\* Mutant: only connected peers are skipped.
retry_skipped_connected_only(peer_id, dialed_peers, pending) ==
    peer_id \in dialed_peers

\* Mutant: only peers with a pending retry are skipped.
retry_skipped_pending_only(peer_id, dialed_peers, pending) ==
    peer_id \in DOMAIN pending

\* The early return of retry_with_relay.
retry_skipped(peer_id, dialed_peers, pending) ==
    peer_id \in dialed_peers \/ peer_id \in DOMAIN pending

\* Mutant: the entry stays when the dial is rejected.
retry_pending_kept(pending, peer_id, addr, dial_ok) ==
    [q \in DOMAIN pending \cup {peer_id} |-> IF q = peer_id THEN <<addr>> ELSE pending[q]]

\* pending_relay_retries after the insert and the dial; dial_ok is swarm.dial's outcome.
retry_pending(pending, peer_id, addr, dial_ok) ==
    LET inserted == [q \in DOMAIN pending \cup {peer_id} |->
                        IF q = peer_id THEN <<addr>> ELSE pending[q]]
    IN IF dial_ok THEN inserted
       ELSE [q \in DOMAIN inserted \ {peer_id} |-> inserted[q]]

\* Mutant: the scan of the bootstrap list adds nothing.
discover_relay_peers_none(relays, bootstrap) == relays

\* discover_relay_peers: every bootstrap peer becomes a candidate relay.
discover_relay_peers(relays, bootstrap) == relays \cup bootstrap

\* mark_failed_direct on failed_direct_connections.
mark_failed_direct(failed, peer_id) == failed \cup {peer_id}

\* Mutant: the pending retry of the peer is kept.
clear_failed_direct_failed_only(failed, pending, peer_id) ==
    [failed |-> failed \ {peer_id}, pending |-> pending]

\* clear_failed_direct on failed_direct_connections and pending_relay_retries.
clear_failed_direct(failed, pending, peer_id) ==
    [failed |-> failed \ {peer_id},
     pending |-> [q \in DOMAIN pending \ {peer_id} |-> pending[q]]]

\* Mutant: the accepted relay replaces the known relays.
reservation_accepted_replaces(relays, relay_peer_id) == {relay_peer_id}

\* handle_relay_event, ReservationReqAccepted arm: relay_peers.insert(relay_peer_id).
reservation_accepted(relays, relay_peer_id) == relays \cup {relay_peer_id}

has_failed_direct(failed, peer_id) == peer_id \in failed

----------------------------------------------------------------------------
(* AppState (ui/state.rs) *)

\* debug_events.len() > 100
MAX_DEBUG_EVENTS == 100

\* A DebugEvent. Its timestamp is written as the ordinal of the add_debug_event
\* call that made it; the message text is left out.
DebugEvent(timestamp, event_type, peer_id) ==
    [timestamp |-> timestamp, event_type |-> event_type, peer_id |-> peer_id]

\* Mutant: the entry just pushed is the one removed.
add_debug_event_drops_newest(log, n, event_type, peer_id) ==
    LET pushed == Append(log, DebugEvent(n + 1, event_type, peer_id))
    IN IF Len(pushed) > MAX_DEBUG_EVENTS THEN SubSeq(pushed, 1, Len(pushed) - 1) ELSE pushed

\* add_debug_event: push, then remove(0) when more than 100 are held.
\* n is the number of calls made before this one.
add_debug_event(log, n, event_type, peer_id) ==
    LET pushed == Append(log, DebugEvent(n + 1, event_type, peer_id))
    IN IF Len(pushed) > MAX_DEBUG_EVENTS THEN Tail(pushed) ELSE pushed

\* Mutant: the peer is pushed whether or not it is listed.
add_peer_always(peer_list, peer_id) == Append(peer_list, peer_id)

\* add_peer on AppState.peers: push when no element equals peer_id.
add_peer(peer_list, peer_id) ==
    IF \E i \in DOMAIN peer_list : peer_list[i] = peer_id
    THEN peer_list
    ELSE Append(peer_list, peer_id)

\* The event type add_peer logs.
add_peer_event_type(peer_list, peer_id) ==
    IF \E i \in DOMAIN peer_list : peer_list[i] = peer_id
    THEN "PEER_REFRESHED"
    ELSE "PEER_CONNECTED"

\* remove_peer on AppState.peers: peers.retain(|peer| peer != peer_id).
remove_peer(peer_list, peer_id) == Filter(peer_list, Range(peer_list) \ {peer_id})

\* &message.sender[..8] returns a slice: the string has at least 8 bytes.
\* An identifier PeerId::from_str accepts is written here with one letter and
\* has more than 8 bytes; any other text is as long as it is written.
sender_prefix_ok(sender) == IsPeerId(sender) \/ Len(sender) >= 8

\* upsert_friend_status on AppState.friends: insert under status.peer_id.
upsert_friend_status(friend_map, status) ==
    [p \in DOMAIN friend_map \cup {status.peer_id} |->
        IF p = status.peer_id THEN status ELSE friend_map[p]]

----------------------------------------------------------------------------

(* State after P2PClient::new and NatTraversal::new *)

NatIdle ==
    /\ failed_direct_connections = {}
    /\ relay_peers = {}
    /\ pending_relay_retries = << >>
    /\ bootstrap_peers = {}
    /\ nat_call = [op |-> "new"]
    /\ nat_dials = <<>>

\* The channels as run_full_client creates them; no handler is running.
LoopIdle ==
    /\ command_channel = <<>>
    /\ n_submitted = 0
    /\ cmd_closed = FALSE
    /\ handled_seq = 0
    /\ n_dropped = 0
    /\ event_channel = 0
    /\ sending = 0
    /\ connections = {}

\* AppState::new; the UI thread has taken no event.
UiIdle ==
    /\ messages = <<>>
    /\ peers = <<>>
    /\ debug_events = <<>>
    /\ peer_last_seen = {}
    /\ friends = << >>
    /\ ui_pc = "running"
    /\ ui_event = [type |-> "none"]
    /\ n_ui_events = 0
    /\ n_debug_added = 0
    /\ last_peer_event = [p \in EnginePeers |-> "none"]

Init ==
    /\ pc = "new"
    /\ enable_chat = TRUE
    /\ friend_ids \in SUBSET DiskIds
    /\ friend_queue \in IterationOrders(friend_ids)
    /\ pending_friend_queries = << >>
    /\ next_query_id = 0
    /\ n_commands = 0
    /\ handled = [op |-> "new"]
    /\ emitted = <<>>
    /\ started = NoHistory
    /\ resolved = NoHistory
    /\ added = {}
    /\ NatIdle
    /\ LoopIdle
    /\ UiIdle

----------------------------------------------------------------------------
(* P2PClient::run *)

\* run, lines 137-139: placeholders, enqueue of all friends, first admission.
\* friend_ids has not changed since new() collected friend_queue from it, so
\* every iteration over it yields the order friend_queue has.
run_startup ==
    /\ pc = "new"
    /\ LET all_ids == friend_queue
             queue == enqueue_all_friend_checks(friend_queue, pending_friend_queries, all_ids)
             sch == try_start_next_friend_queries(
                        [queue |-> queue, pending |-> pending_friend_queries,
                         next |-> next_query_id, log |-> <<>>])
         IN /\ emitted' = emit_initial_friend_placeholders(all_ids)
            /\ friend_queue' = sch.queue
            /\ pending_friend_queries' = sch.pending
            /\ next_query_id' = sch.next
            /\ started' = BumpAll(started, sch.log)
    /\ pc' = "loop"
    /\ handled' = [op |-> "Startup"]
    /\ UNCHANGED <<enable_chat, friend_ids, n_commands, resolved, added, nat_vars, ui_vars>>

\* Startup with the UI draining its events: the channels are left as they are.
Startup == run_startup /\ UNCHANGED loop_vars

\* sidebar::render, "Add" clicked: the command sent for the typed text, if any.
sidebar_friend_peer_id(friend_input) ==
    IF Trim(friend_input) # <<>> THEN {Trim(friend_input)} ELSE {}

\* The peer_id of the AddFriend commands the UI can submit.
AddFriendCommands == UNION {sidebar_friend_peer_id(t) : t \in FriendInputs}

\* handle_add_friend(raw_peer_id).
handle_add_friend(raw) ==
    /\ pc = "loop"
    /\ n_commands < MaxCommands
    /\ n_commands' = n_commands + 1
    /\ handled' = [op |-> "AddFriend", raw |-> raw]
    /\ LET peer_id == Trim(raw) IN
       IF peer_id = <<>>
       THEN /\ emitted' = <<>>
            /\ UNCHANGED <<friend_ids, friend_queue, pending_friend_queries, next_query_id,
                           started, added>>
       ELSE LET queue == add_friend_queue(friend_queue, pending_friend_queries, peer_id)
                sch == IF IsPeerId(peer_id)
                       THEN try_start_next_friend_queries(
                                [queue |-> queue, pending |-> pending_friend_queries,
                                 next |-> next_query_id, log |-> <<>>])
                       ELSE [queue |-> queue, pending |-> pending_friend_queries,
                             next |-> next_query_id, log |-> <<>>]
            IN /\ friend_ids' = friend_ids \cup {peer_id}
               /\ emitted' = add_friend_events(peer_id)
               /\ friend_queue' = sch.queue
               /\ pending_friend_queries' = sch.pending
               /\ next_query_id' = sch.next
               /\ started' = BumpAll(started, sch.log)
               /\ added' = added \cup {peer_id}
    /\ UNCHANGED <<pc, enable_chat, resolved, nat_vars, ui_vars>>

\* handle_command, AddFriend arm, for a command taken as soon as it is sent.
AddFriend(raw) == handle_add_friend(raw) /\ UNCHANGED loop_vars

\* handle_command, SendMessage arm; publish is the outcome of gossipsub.publish.
handle_send_message(content, publish) ==
    /\ pc = "loop"
    /\ n_commands < MaxCommands
    /\ n_commands' = n_commands + 1
    /\ IF enable_chat
       THEN /\ handled' = [op |-> "SendMessage", content |-> content, publish |-> publish]
            /\ emitted' = send_message_events(publish, content)
       ELSE /\ handled' = [op |-> "SendMessage", content |-> content, publish |-> "none"]
            /\ emitted' = <<>>
    /\ UNCHANGED <<pc, enable_chat, friend_ids, friend_queue, pending_friend_queries,
                   next_query_id, started, resolved, added, nat_vars, ui_vars>>

\* The SendMessage command taken as soon as it is sent.
SendMessage(content, publish) == handle_send_message(content, publish) /\ UNCHANGED loop_vars

\* handle_swarm_event -> handle_kad_event, GetClosestPeers arm.
KadResult(id, res) ==
    /\ pc = "loop"
    /\ IF id \in DOMAIN pending_friend_queries
       THEN LET peer_id == pending_friend_queries[id] IN
            /\ pending_friend_queries' =
                   [q \in DOMAIN pending_friend_queries \ {id} |-> pending_friend_queries[q]]
            /\ emitted' = handle_friend_lookup_result(peer_id, res)
            /\ resolved' = Bump(resolved, peer_id)
            /\ handled' = [op |-> "KadResult", id |-> id, peer_id |-> peer_id, res |-> res]
       ELSE /\ emitted' = <<>>
            /\ handled' = [op |-> "KadIgnored", id |-> id]
            /\ UNCHANGED <<pending_friend_queries, resolved>>
    /\ UNCHANGED <<pc, enable_chat, friend_ids, friend_queue, next_query_id, n_commands,
                   started, added, nat_vars, ui_vars, loop_vars>>

\* The engine delivers the result of a lookup it was asked for.
DeliverLookup ==
    \E id \in DOMAIN pending_friend_queries, res \in LookupResults : KadResult(id, res)

\* handle_command, ConnectToPeer arm; dial is the outcome of swarm.dial.
\* Neither outcome is reported to the UI.
handle_connect_to_peer(address, dial) ==
    /\ pc = "loop"
    /\ n_commands < MaxCommands
    /\ n_commands' = n_commands + 1
    /\ handled' = [op |-> "ConnectToPeer", address |-> address,
                   parsed |-> multiaddr_parses(address),
                   kad_add_address |-> connect_kad_peers(address),
                   dial |-> IF multiaddr_parses(address) THEN dial ELSE "none"]
    /\ emitted' = <<>>
    /\ UNCHANGED <<pc, enable_chat, friend_ids, friend_queue, pending_friend_queries,
                   next_query_id, started, resolved, added, nat_vars, ui_vars>>

\* handle_swarm_event, Gossipsub Message arm.
GossipMessage(data) ==
    /\ pc = "loop"
    /\ handled' = [op |-> "Gossipsub", data |-> data]
    /\ emitted' = gossip_message_events(data)
    /\ UNCHANGED <<pc, enable_chat, friend_ids, friend_queue, pending_friend_queries,
                   next_query_id, n_commands, started, resolved, added, nat_vars, ui_vars, loop_vars>>

\* handle_swarm_event, ConnectionEstablished arm.
connection_established(peer_id) ==
    /\ pc = "loop"
    /\ connections' = connections \cup {peer_id}
    /\ handled' = [op |-> "ConnectionEstablished", peer_id |-> peer_id]
    /\ emitted' = connection_events(peer_id, friend_ids, TRUE)
    /\ UNCHANGED <<pc, enable_chat, friend_ids, friend_queue, pending_friend_queries,
                   next_query_id, n_commands, started, resolved, added, nat_vars, ui_vars>>

\* handle_swarm_event, ConnectionClosed arm; the swarm reports it for a
\* connection it had established.
connection_closed(peer_id) ==
    /\ pc = "loop"
    /\ peer_id \in connections
    /\ connections' = connections \ {peer_id}
    /\ handled' = [op |-> "ConnectionClosed", peer_id |-> peer_id]
    /\ emitted' = connection_events(peer_id, friend_ids, FALSE)
    /\ UNCHANGED <<pc, enable_chat, friend_ids, friend_queue, pending_friend_queries,
                   next_query_id, n_commands, started, resolved, added, nat_vars, ui_vars>>

\* The connection events with the UI draining the event channel.
ConnectionEstablished(peer_id) ==
    /\ connection_established(peer_id)
    /\ UNCHANGED <<command_channel, n_submitted, cmd_closed, handled_seq, n_dropped, event_channel,
                   sending>>

ConnectionClosed(peer_id) ==
    /\ connection_closed(peer_id)
    /\ UNCHANGED <<command_channel, n_submitted, cmd_closed, handled_seq, n_dropped, event_channel,
                   sending>>

\* ChatApp::send_command, connect_to_peer, add_friend: the command goes to
\* try_send, which returns at once; a refusal is logged and the command is gone.
\* seq numbers the commands the channel took.
ui_try_send(cmd) ==
    /\ ~cmd_closed
    /\ LET channel == try_send(command_channel, COMMAND_CHANNEL_CAPACITY,
                               [seq |-> n_submitted + 1, cmd |-> cmd])
       IN /\ command_channel' = channel
          /\ IF channel = command_channel
             THEN n_dropped' = n_dropped + 1 /\ UNCHANGED n_submitted
             ELSE n_submitted' = n_submitted + 1 /\ UNCHANGED n_dropped
    /\ UNCHANGED <<client_vars, nat_vars, ui_vars, cmd_closed, handled_seq, event_channel, sending,
                   connections>>

UiSubmit(cmd) ==
    /\ n_submitted < MaxCommands
    /\ ui_try_send(cmd)

\* The window closes: ChatApp and with it the only command sender are dropped.
UiClose ==
    /\ ~cmd_closed
    /\ cmd_closed' = TRUE
    /\ UNCHANGED <<client_vars, nat_vars, ui_vars, command_channel, n_submitted, handled_seq, n_dropped,
                   event_channel, sending, connections>>

\* run, the command branch of select!: recv yields Some(command), and
\* handle_command is awaited before the loop selects again.
RecvCommand ==
    /\ pc = "loop"
    /\ sending = 0
    /\ command_channel # <<>>
    /\ LET got == recv(command_channel)
           cmd == got.item.cmd
       IN /\ command_channel' = got.rest
          /\ handled_seq' = got.item.seq
          /\ CASE cmd.kind = "AddFriend" -> handle_add_friend(cmd.peer_id)
               [] cmd.kind = "SendMessage" ->
                      \E publish \in {"ok", "err"} : handle_send_message(cmd.content, publish)
               [] cmd.kind = "ConnectToPeer" ->
                      \E dial \in {"ok", "err"} : handle_connect_to_peer(cmd.address, dial)
    /\ UNCHANGED <<n_submitted, cmd_closed, n_dropped, event_channel, sending, connections>>

\* run, the command branch of select!: recv yields None and the loop breaks.
RecvNone ==
    /\ pc = "loop"
    /\ sending = 0
    /\ recv_none(cmd_closed, command_channel)
    /\ pc' = "exited"
    /\ UNCHANGED <<enable_chat, friend_ids, friend_queue, pending_friend_queries,
                   next_query_id, n_commands, handled, emitted, started, resolved, added,
                   nat_vars, ui_vars, loop_vars>>

----------------------------------------------------------------------------
(* NatTraversal *)

\* retry_with_relay(peer_id, swarm, dialed_peers)
RetryWithRelay(peer_id, dialed_peers, dial_ok) ==
    /\ IF retry_skipped(peer_id, dialed_peers, pending_relay_retries)
       THEN /\ nat_dials' = <<>>
            /\ nat_call' = [op |-> "retry_with_relay", peer_id |-> peer_id,
                            dialed_peers |-> dialed_peers, dial_ok |-> TRUE]
            /\ UNCHANGED <<relay_peers, pending_relay_retries>>
       ELSE IF relay_peers # {}
            THEN \E relay_id \in relay_peers :
                   LET addr == relay_addr(relay_id, peer_id) IN
                   /\ nat_dials' = <<addr>>
                   /\ pending_relay_retries' =
                          retry_pending(pending_relay_retries, peer_id, addr, dial_ok)
                   /\ nat_call' = [op |-> "retry_with_relay", peer_id |-> peer_id,
                                   dialed_peers |-> dialed_peers, dial_ok |-> dial_ok]
                   /\ UNCHANGED relay_peers
            ELSE /\ nat_dials' = <<>>
                 /\ relay_peers' = discover_relay_peers(relay_peers, bootstrap_peers)
                 /\ nat_call' = [op |-> "retry_with_relay", peer_id |-> peer_id,
                                 dialed_peers |-> dialed_peers, dial_ok |-> TRUE]
                 /\ UNCHANGED pending_relay_retries
    /\ UNCHANGED <<failed_direct_connections, bootstrap_peers, client_vars, loop_vars, ui_vars>>

\* handle_relay_event: accepted = TRUE is ReservationReqAccepted { relay_peer_id }.
HandleRelayEvent(relay_peer_id, accepted) ==
    /\ relay_peers' = IF accepted THEN reservation_accepted(relay_peers, relay_peer_id)
                                  ELSE relay_peers
    /\ nat_call' = [op |-> "handle_relay_event", peer_id |-> relay_peer_id,
                    accepted |-> accepted]
    /\ nat_dials' = <<>>
    /\ UNCHANGED <<failed_direct_connections, pending_relay_retries, bootstrap_peers,
                   client_vars, loop_vars, ui_vars>>

\* handle_dcutr_event: the event is only logged; kind is what its Debug text contains.
HandleDcutrEvent(peer_id, kind) ==
    /\ nat_call' = [op |-> "handle_dcutr_event", peer_id |-> peer_id, kind |-> kind]
    /\ nat_dials' = <<>>
    /\ UNCHANGED <<failed_direct_connections, relay_peers, pending_relay_retries,
                   bootstrap_peers, client_vars, loop_vars, ui_vars>>

\* handle_autonat_event: the status change is only logged.
HandleAutonatEvent(status) ==
    /\ nat_call' = [op |-> "handle_autonat_event", status |-> status]
    /\ nat_dials' = <<>>
    /\ UNCHANGED <<failed_direct_connections, relay_peers, pending_relay_retries,
                   bootstrap_peers, client_vars, loop_vars, ui_vars>>

MarkFailedDirect(peer_id) ==
    /\ failed_direct_connections' = mark_failed_direct(failed_direct_connections, peer_id)
    /\ nat_call' = [op |-> "mark_failed_direct", peer_id |-> peer_id]
    /\ nat_dials' = <<>>
    /\ UNCHANGED <<relay_peers, pending_relay_retries, bootstrap_peers, client_vars, loop_vars, ui_vars>>

ClearFailedDirect(peer_id) ==
    /\ LET cleared == clear_failed_direct(failed_direct_connections, pending_relay_retries,
                                          peer_id)
       IN /\ failed_direct_connections' = cleared.failed
          /\ pending_relay_retries' = cleared.pending
    /\ nat_call' = [op |-> "clear_failed_direct", peer_id |-> peer_id,
                    had_failed |-> has_failed_direct(failed_direct_connections, peer_id),
                    had_pending |-> peer_id \in DOMAIN pending_relay_retries]
    /\ nat_dials' = <<>>
    /\ UNCHANGED <<relay_peers, bootstrap_peers, client_vars, loop_vars, ui_vars>>

\* The swarm reports that the relayed dial to peer_id failed. No method of the
\* coordinator takes the report and handle_swarm_event has no arm for it.
OutgoingConnectionError(peer_id) ==
    /\ peer_id \in DOMAIN pending_relay_retries
    /\ nat_call' = [op |-> "OutgoingConnectionError", peer_id |-> peer_id]
    /\ nat_dials' = <<>>
    /\ UNCHANGED <<failed_direct_connections, relay_peers, pending_relay_retries,
                   bootstrap_peers, client_vars, loop_vars, ui_vars>>

NextNat ==
    \/ \E peer_id \in NatPeers, dialed_peers \in DialedSets, dial_ok \in BOOLEAN :
          RetryWithRelay(peer_id, dialed_peers, dial_ok)
    \/ \E relay_peer_id \in NatPeers, accepted \in BOOLEAN :
          HandleRelayEvent(relay_peer_id, accepted)
    \/ \E peer_id \in NatPeers, kind \in {"Established", "Error", "other"} :
          HandleDcutrEvent(peer_id, kind)
    \/ \E status \in {"Public", "Private", "Unknown"} : HandleAutonatEvent(status)
    \/ \E peer_id \in NatPeers : MarkFailedDirect(peer_id)
    \/ \E peer_id \in NatPeers : ClearFailedDirect(peer_id)
    \/ \E peer_id \in NatPeers : OutgoingConnectionError(peer_id)

\* State after NatTraversal::new(bootstrap_peers); the client is left as constructed.
InitNat ==
    /\ pc = "new"
    /\ enable_chat = TRUE
    /\ friend_ids = {}
    /\ friend_queue = <<>>
    /\ pending_friend_queries = << >>
    /\ next_query_id = 0
    /\ n_commands = 0
    /\ handled = [op |-> "new"]
    /\ emitted = <<>>
    /\ started = NoHistory
    /\ resolved = NoHistory
    /\ added = {}
    /\ failed_direct_connections = {}
    /\ relay_peers = {}
    /\ pending_relay_retries = << >>
    /\ bootstrap_peers \in SUBSET BootstrapCandidates
    /\ nat_call = [op |-> "new"]
    /\ nat_dials = <<>>
    /\ LoopIdle
    /\ UiIdle

SpecNat == InitNat /\ [][NextNat]_vars

----------------------------------------------------------------------------

(* ChatApp::handle_network_events *)

\* Events the handlers of P2PClient put on the event channel. HistorySynced is
\* declared in events.rs and no handler sends it.
NetworkEvents ==
    UNION {Range(gossip_message_events(data)) : data \in GossipPayloads}
    \cup UNION {Range(send_message_events("ok", content)) : content \in Texts}
    \cup UNION {Range(connection_events(p, {<<"b">>}, established)) :
                   p \in EnginePeers, established \in BOOLEAN}
    \cup UNION {Range(add_friend_events(p)) : p \in {<<"b">>, <<"!">>}}
    \cup UNION {Range(handle_friend_lookup_result(<<"b">>, res)) : res \in LookupResults}

\* One turn of the while loop of handle_network_events: the match on the event
\* try_recv returned and the AppState method of its arm.
ui_handle_event(event) ==
    /\ ui_pc = "running"
    /\ ui_event' = event
    /\ n_ui_events' = n_ui_events + 1
    /\ CASE event.type = "MessageReceived" ->
              \* push_message: the push, then the arguments of add_debug_event
              /\ messages' = Append(messages, [sender |-> event.sender,
                                               content |-> event.content])
              /\ IF sender_prefix_ok(event.sender)
                 THEN /\ debug_events' = add_debug_event(debug_events, n_debug_added,
                                                         "MESSAGE_RECEIVED", event.sender)
                      /\ n_debug_added' = n_debug_added + 1
                      /\ UNCHANGED ui_pc
                 ELSE /\ ui_pc' = "panicked"
                      /\ UNCHANGED <<debug_events, n_debug_added>>
              /\ UNCHANGED <<peers, peer_last_seen, friends, last_peer_event>>
         [] event.type = "PeerConnected" ->
              /\ peers' = add_peer(peers, event.peer_id)
              /\ peer_last_seen' = peer_last_seen \cup {event.peer_id}
              /\ debug_events' = add_debug_event(debug_events, n_debug_added,
                                                 add_peer_event_type(peers, event.peer_id),
                                                 event.peer_id)
              /\ n_debug_added' = n_debug_added + 1
              /\ last_peer_event' = [last_peer_event EXCEPT ![event.peer_id] = event.type]
              /\ UNCHANGED <<messages, friends, ui_pc>>
         [] event.type = "PeerDisconnected" ->
              /\ peers' = remove_peer(peers, event.peer_id)
              /\ IF event.peer_id \in Range(peers)
                 THEN /\ debug_events' = add_debug_event(debug_events, n_debug_added,
                                                         "PEER_DISCONNECTED", event.peer_id)
                      /\ n_debug_added' = n_debug_added + 1
                 ELSE UNCHANGED <<debug_events, n_debug_added>>
              /\ last_peer_event' = [last_peer_event EXCEPT ![event.peer_id] = event.type]
              /\ UNCHANGED <<messages, peer_last_seen, friends, ui_pc>>
         [] event.type = "FriendStatus" ->
              /\ debug_events' = add_debug_event(debug_events, n_debug_added,
                                                 IF event.online THEN "FRIEND_ONLINE"
                                                                 ELSE "FRIEND_OFFLINE",
                                                 event.peer_id)
              /\ n_debug_added' = n_debug_added + 1
              /\ friends' = upsert_friend_status(friends, event)
              /\ UNCHANGED <<messages, peers, peer_last_seen, ui_pc, last_peer_event>>
    /\ UNCHANGED <<client_vars, nat_vars, loop_vars>>

\* The UI takes the next event of the channel.
UiHandle(event) == n_ui_events < MaxUiEvents /\ ui_handle_event(event)

NextUi == \E event \in NetworkEvents : UiHandle(event)

\* ChatApp::new beside a client that has no friends on disk.
InitUi ==
    /\ Init
    /\ friend_ids = {}

SpecUi == InitUi /\ [][NextUi]_vars

\* A session in which one peer keeps opening connections: after its first
\* events the UI is handed PeerConnected for that peer over and over.
RepeatedEvent == PeerConnected(<<"b">>)

UiFlood(event) ==
    /\ n_ui_events < MaxFlood
    /\ n_ui_events >= FloodPrefix => event = RepeatedEvent
    /\ ui_handle_event(event)

NextDebugFlood == \E event \in NetworkEvents : UiFlood(event)

SpecDebugFlood == InitUi /\ [][NextDebugFlood]_vars

Next ==
    \/ Startup
    \/ \E raw \in AddFriendCommands : AddFriend(raw)
    \/ \E content \in Texts, publish \in {"ok", "err"} : SendMessage(content, publish)
    \/ DeliverLookup
    \/ NextNat
    \/ NextUi

Spec == Init /\ [][Next]_vars

\* The friend presence scheduler on its own: no handler outside it touches its state.
NextFriends ==
    \/ Startup
    \/ \E raw \in AddFriendCommands : AddFriend(raw)
    \/ DeliverLookup

SpecFriends == Init /\ [][NextFriends]_vars

\* The chat commands of the bridge.
NextChat ==
    \/ Startup
    \/ \E content \in Texts, publish \in {"ok", "err"} : SendMessage(content, publish)
    \/ \E data \in GossipPayloads : GossipMessage(data)
    \/ \E p \in EnginePeers : ConnectionEstablished(p)
    \/ \E p \in EnginePeers : ConnectionClosed(p)

SpecChat == Init /\ [][NextChat]_vars

\* The loop of run with its command channel: the UI submits and closes, the
\* swarm delivers lookup results and gossip messages.
InitLoop ==
    /\ Init
    /\ friend_ids \subseteq {<<"b">>}

NextLoop ==
    \/ Startup
    \/ \E cmd \in UiCommands : UiSubmit(cmd)
    \/ UiClose
    \/ RecvCommand
    \/ RecvNone
    \/ DeliverLookup
    \/ \E data \in GossipPayloads : GossipMessage(data)

SpecLoop == InitLoop /\ [][NextLoop]_vars

\* Friend presence with the swarm's connection events: AddFriend commands,
\* lookup results and connections opening and closing, in any order.
NextPresence ==
    \/ Startup
    \/ \E raw \in AddFriendCommands : AddFriend(raw)
    \/ DeliverLookup
    \/ \E p \in EnginePeers : ConnectionEstablished(p)
    \/ \E p \in EnginePeers : ConnectionClosed(p)

SpecPresence == InitLoop /\ [][NextPresence]_vars

\* The UI submitting faster than the loop takes commands: the user keeps
\* sending one chat message until try_send has refused one.
FloodCommands == {NetworkCommand("SendMessage", <<>>, "hello", <<>>)}

FloodSubmit(cmd) ==
    /\ n_dropped = 0
    /\ ui_try_send(cmd)

NextFlood ==
    \/ Startup
    \/ \E cmd \in FloodCommands : FloodSubmit(cmd)
    \/ RecvCommand

SpecFlood == InitLoop /\ [][NextFlood]_vars

\* The handlers run against the bounded event channel: a handler's events wait
\* in `sending` until event_sender.send has put each into the channel, and the
\* loop selects again only then.
StartupSends ==
    /\ sending = 0
    /\ run_startup
    /\ sending' = Len(emitted')
    /\ UNCHANGED <<command_channel, n_submitted, cmd_closed, handled_seq, n_dropped, event_channel,
                   connections>>

ConnectionEstablishedSends(peer_id) ==
    /\ sending = 0
    /\ connection_established(peer_id)
    /\ sending' = Len(emitted')
    /\ UNCHANGED <<command_channel, n_submitted, cmd_closed, handled_seq, n_dropped, event_channel>>

ConnectionClosedSends(peer_id) ==
    /\ sending = 0
    /\ connection_closed(peer_id)
    /\ sending' = Len(emitted')
    /\ UNCHANGED <<command_channel, n_submitted, cmd_closed, handled_seq, n_dropped, event_channel>>

\* event_sender.send(event).await completes: the channel had a free permit.
SendEvent ==
    /\ sending > 0
    /\ event_channel < EVENT_CHANNEL_CAPACITY
    /\ event_channel' = event_channel + 1
    /\ sending' = sending - 1
    /\ UNCHANGED <<client_vars, nat_vars, ui_vars, command_channel, n_submitted, cmd_closed,
                   handled_seq, n_dropped, connections>>

\* ChatApp::handle_network_events: try_recv until the channel is empty.
HandleNetworkEvents ==
    /\ event_channel > 0
    /\ event_channel' = 0
    /\ UNCHANGED <<client_vars, nat_vars, ui_vars, command_channel, n_submitted, cmd_closed,
                   handled_seq, n_dropped, sending, connections>>

NextBackpressure ==
    \/ StartupSends
    \/ \E p \in EnginePeers : ConnectionEstablishedSends(p)
    \/ \E p \in EnginePeers : ConnectionClosedSends(p)
    \/ SendEvent
    \/ HandleNetworkEvents

SpecBackpressure == InitLoop /\ [][NextBackpressure]_vars

----------------------------------------------------------------------------
(* Properties *)

InQueue(p) == \E i \in DOMAIN friend_queue : friend_queue[i] = p

\* Lookups enqueued or dispatched for p so far.
LookupsFor(p) == started[p] + (IF InQueue(p) THEN 1 ELSE 0)

\* C1: the number of outstanding friend lookups never exceeds K = 3.
C1_BoundedLookups ==
    Cardinality(DOMAIN pending_friend_queries) <= 3

\* C1 witness: all three slots are taken while another friend waits in the queue.
C1_Witness ==
    /\ pc = "loop"
    /\ Cardinality(DOMAIN pending_friend_queries) = 3
    /\ \E i \in DOMAIN friend_queue : IsPeerId(friend_queue[i])

\* The scheduler with no AddFriend commands, the engine answering every lookup.
NextDrain ==
    \/ Startup
    \/ DeliverLookup

SpecDrain == Init /\ [][NextDrain]_vars

\* C2: with no further AddFriend commands and every dispatched lookup answered,
\* every valid friend has its lookup dispatched and resolved exactly once.  Stated
\* on the final states of such a run: once the loop runs and no lookup is
\* outstanding (the engine owes no result and no step of the run remains), every
\* valid friend has been dispatched once and resolved once.
C2_QueueDrains ==
    (pc = "loop" /\ DOMAIN pending_friend_queries = {})
        => \A p \in friend_ids \cap ValidPeerIds : started[p] = 1 /\ resolved[p] = 1

\* C3: a repeated AddFriend(p) for a valid p causes no further lookup for p and
\* leaves the friend set as it was.
C3_IdempotentAddFriend ==
    [][\A p \in ValidPeerIds :
          (handled'.op = "AddFriend" /\ handled'.raw = p /\ p \in added)
            => (LookupsFor(p)' = LookupsFor(p) /\ friend_ids' = friend_ids)]_vars

\* C4: an AddFriend command with an invalid identifier emits a FriendStatus with
\* online = false for it, and neither the queue nor the pending map gains an entry for it.
C4_InvalidAddFriend ==
    [][\A p \in Ids \ ValidPeerIds :
          (handled'.op = "AddFriend" /\ handled'.raw = p)
            => /\ \E i \in DOMAIN emitted' :
                     /\ emitted'[i].type = "FriendStatus"
                     /\ emitted'[i].peer_id = p
                     /\ emitted'[i].online = FALSE
               /\ \A i \in DOMAIN emitted' :
                     emitted'[i].type = "FriendStatus" => emitted'[i].online = FALSE
               /\ (InQueue(p)' => InQueue(p))
               /\ (p \in Range(pending_friend_queries')
                     => p \in Range(pending_friend_queries))]_vars

\* C4 witness: an invalid identifier was handled and reported offline.
C4_Witness ==
    /\ handled.op = "AddFriend"
    /\ ~IsPeerId(handled.raw)
    /\ Len(emitted) = 1
    /\ emitted[1].online = FALSE
    /\ ~InQueue(handled.raw)

\* C5: SendMessage(text) emits exactly one MessageReceived(local identity, text)
\* when publish succeeds and no MessageReceived when publish fails.
C5_SelfMessage ==
    handled.op = "SendMessage" =>
        /\ handled.publish = "ok" => emitted = <<MessageReceived(LocalPeerId, handled.content)>>
        /\ handled.publish = "err" =>
               \A i \in DOMAIN emitted : emitted[i].type # "MessageReceived"

\* C5 witness: a message was published and echoed locally.
C5_Witness ==
    /\ handled.op = "SendMessage"
    /\ handled.publish = "ok"
    /\ Len(emitted) = 1
    /\ emitted[1].content = handled.content

\* C6: a resolved lookup of p reports online = true exactly when the outcome is a
\* successful closest-peers result containing p.
C6_OnlineIffFound ==
    handled.op = "KadResult" =>
        /\ Len(emitted) = 1
        /\ emitted[1].type = "FriendStatus"
        /\ emitted[1].peer_id = handled.peer_id
        /\ emitted[1].online = (handled.res.ok /\ handled.peer_id \in handled.res.peers)

\* C6 witness: a lookup resolved with its target among the closest peers.
C6_Witness ==
    /\ handled.op = "KadResult"
    /\ handled.res.ok
    /\ handled.peer_id \in handled.res.peers
    /\ emitted[1].online = TRUE

\* The class of a lookup outcome and the class a message text belongs to.
OutcomeClass(peer_id, res) ==
    IF ~res.ok THEN "timeout"
    ELSE IF peer_id \in res.peers THEN "found"
    ELSE IF res.peers = {} THEN "not_found_empty"
    ELSE "not_found_peers"

MessageClass(tmpl) ==
    CASE tmpl = "Da tim thay trong DHT ({} peers gan nhat)" -> "found"
      [] tmpl = "Khong tim thay, nhung co {} peers gan nhat tra ve" -> "not_found_peers"
      [] tmpl = "Khong tim thay peer trong DHT" -> "not_found_empty"
      [] tmpl = "Timeout khi truy van bootstrap ({} peers gan nhat)" -> "timeout"
      [] OTHER -> "none"

\* C7 as stated: the message of a resolved lookup is of the class of its outcome
\* and in every class includes the count of peers considered.
C7_CountInEveryClass ==
    handled.op = "KadResult" =>
        /\ MessageClass(emitted[1].message.tmpl) = OutcomeClass(handled.peer_id, handled.res)
        /\ emitted[1].message.args = <<Cardinality(handled.res.peers)>>

\* C7 amended: the message of a resolved lookup is of the class of its outcome;
\* it includes the count of peers in the found, not-found-with-peers and timeout
\* classes, and carries no count in the not-found-with-empty-result class.
C7_CountUnlessEmpty ==
    handled.op = "KadResult" =>
        LET class == OutcomeClass(handled.peer_id, handled.res)
            m == emitted[1].message
        IN /\ MessageClass(m.tmpl) = class
           /\ class # "not_found_empty" => m.args = <<Cardinality(handled.res.peers)>>
           /\ class = "not_found_empty" => m.args = <<>>

\* C7 witness: a lookup resolved with an empty closest-peers result.
C7_Witness ==
    /\ handled.op = "KadResult"
    /\ handled.res.ok
    /\ handled.res.peers = {}
    /\ emitted[1].message.args = <<>>

\* C8: every peer has at most one pending relay retry, and retry_with_relay for a
\* peer that already has one issues no dial and changes no coordinator state.
C8_OneRetryPerPeer ==
    [][/\ \A p \in DOMAIN pending_relay_retries' : Len(pending_relay_retries'[p]) = 1
       /\ (nat_call'.op = "retry_with_relay"
             /\ nat_call'.peer_id \in DOMAIN pending_relay_retries)
            => /\ nat_dials' = <<>>
               /\ pending_relay_retries' = pending_relay_retries
               /\ relay_peers' = relay_peers
               /\ failed_direct_connections' = failed_direct_connections
               /\ bootstrap_peers' = bootstrap_peers]_vars

\* C8 witness: a retry was requested for an unconnected peer whose retry is
\* pending, with a relay known, and nothing was dialed.
C8_Witness ==
    /\ nat_call.op = "retry_with_relay"
    /\ nat_call.peer_id \notin nat_call.dialed_peers
    /\ nat_call.peer_id \in DOMAIN pending_relay_retries
    /\ relay_peers # {}
    /\ nat_dials = <<>>

\* C9: retry_with_relay for a peer in the connected-peer set issues no dial, adds
\* no pending-retry entry and leaves the relay set unchanged.
C9_ConnectedNeverRetried ==
    [][(nat_call'.op = "retry_with_relay" /\ nat_call'.peer_id \in nat_call'.dialed_peers)
         => /\ nat_dials' = <<>>
            /\ pending_relay_retries' = pending_relay_retries
            /\ relay_peers' = relay_peers]_vars

\* C9 witness: a retry was requested for a connected peer with no pending retry
\* while a relay was known, and nothing was dialed.
C9_Witness ==
    /\ nat_call.op = "retry_with_relay"
    /\ nat_call.peer_id \in nat_call.dialed_peers
    /\ nat_call.peer_id \notin DOMAIN pending_relay_retries
    /\ relay_peers # {}
    /\ nat_dials = <<>>

\* C10: no two entries of pending_friend_queries carry the same peer id.
C10_OnePendingPerPeer ==
    \A q1, q2 \in DOMAIN pending_friend_queries :
        pending_friend_queries[q1] = pending_friend_queries[q2] => q1 = q2

\* C10 witness: AddFriend was handled for a peer whose lookup is outstanding
\* while a slot was free.
C10_Witness ==
    /\ handled.op = "AddFriend"
    /\ handled.raw \in Range(pending_friend_queries)
    /\ Cardinality(DOMAIN pending_friend_queries) < 3

\* C11: no peer id is at once waiting in friend_queue and the target of a
\* running lookup in pending_friend_queries.
C11_QueuedOrPending ==
    \A q \in DOMAIN pending_friend_queries : ~InQueue(pending_friend_queries[q])

\* AddFriend named an id whose lookup is running while other ids wait in the queue.
C11_Witness ==
    /\ handled.op = "AddFriend"
    /\ handled.raw \in Range(pending_friend_queries)
    /\ friend_queue # <<>>
    /\ Cardinality(DOMAIN pending_friend_queries) = MAX_CONCURRENT_FRIEND_QUERIES

\* C12: friend_queue never holds the same id twice, from construction on.
C12_QueueDistinct ==
    \A i, j \in DOMAIN friend_queue : friend_queue[i] = friend_queue[j] => i = j

\* Right after the startup enqueue, with ids left waiting behind the running lookups.
C12_Witness ==
    /\ handled.op = "Startup"
    /\ Len(friend_queue) >= 2

\* C18: after startup, AddFriend and every completed lookup, either the queue
\* is empty or exactly MAX_CONCURRENT_FRIEND_QUERIES lookups are outstanding.
C18_QueueEmptyOrSlotsFull ==
    handled.op \in {"Startup", "AddFriend", "KadResult"} =>
        \/ friend_queue = <<>>
        \/ Cardinality(DOMAIN pending_friend_queries) = MAX_CONCURRENT_FRIEND_QUERIES

\* The queue a step hands to try_start_next_friend_queries when it enqueues p:
\* unchanged when p is queued or has a running lookup, else with p at the tail.
QueueWith(p) ==
    IF InQueue(p) \/ p \in Range(pending_friend_queries)
    THEN friend_queue
    ELSE Append(friend_queue, p)

\* The ids whose lookups a step started, in the order their QueryIds were taken.
Dispatched ==
    [i \in 1..(next_query_id' - next_query_id) |->
        pending_friend_queries'[next_query_id + i - 1]]

IsSuffix(s, t) == \E k \in 0..Len(t) : s = SubSeq(t, k + 1, Len(t))

\* C19: an AddFriend for a valid id p leaves the queue as it was when p is
\* queued or has a running lookup and otherwise appends p at the tail; the
\* lookups the step starts are the head of that queue, in queue order, and
\* what stays queued is its tail.
C19_EnqueueFifo ==
    [][\A p \in ValidPeerIds :
          (handled'.op = "AddFriend" /\ handled'.raw = p /\ n_commands' = n_commands + 1) =>
              /\ Filter(QueueWith(p), ValidPeerIds)
                     = Dispatched \o Filter(friend_queue', ValidPeerIds)
              /\ IsSuffix(friend_queue', QueueWith(p))]_vars

\* A new valid id was appended behind an entry that is still waiting.
C19_Witness ==
    /\ handled.op = "AddFriend"
    /\ IsPeerId(handled.raw)
    /\ Len(friend_queue) >= 2
    /\ friend_queue[Len(friend_queue)] = handled.raw

Min(a, b) == IF a <= b THEN a ELSE b

\* C20: where try_start_next_friend_queries runs (startup, AddFriend of a
\* valid id), an unparsable queue head is dropped and takes no slot: afterwards
\* the outstanding lookups number min(K, outstanding before + valid ids in the
\* queue), all of them for valid ids, and nothing popped is queued again.
C20_InvalidHeadDropped ==
    [][\A p \in ValidPeerIds \cup {<<>>} :
          (\/ p = <<>> /\ pc = "new" /\ pc' = "loop"
           \/ p # <<>> /\ handled'.op = "AddFriend" /\ handled'.raw = p
                       /\ n_commands' = n_commands + 1) =>
              LET queue == IF p = <<>> THEN friend_queue ELSE QueueWith(p) IN
              /\ Cardinality(DOMAIN pending_friend_queries')
                     = Min(MAX_CONCURRENT_FRIEND_QUERIES,
                           Cardinality(DOMAIN pending_friend_queries)
                               + Len(Filter(queue, ValidPeerIds)))
              /\ \A q \in DOMAIN pending_friend_queries' :
                     IsPeerId(pending_friend_queries'[q])
              /\ IsSuffix(friend_queue', queue)]_vars

\* Startup popped an unparsable id off the queue ahead of ids still waiting, and
\* every slot went to a valid id.
C20_Witness ==
    /\ handled.op = "Startup"
    /\ \E p \in friend_ids \ ValidPeerIds : ~InQueue(p)
    /\ Cardinality(DOMAIN pending_friend_queries) = MAX_CONCURRENT_FRIEND_QUERIES
    /\ friend_queue # <<>>

\* C13: the command the loop handles is always the oldest one the command
\* channel accepted and has not handled yet, whatever engine events come between.
C13_SubmissionOrder ==
    [][handled_seq' # handled_seq =>
          /\ handled_seq' = handled_seq + 1
          /\ n_commands' = n_commands + 1
          /\ \A i \in DOMAIN command_channel' : command_channel'[i].seq > handled_seq']_vars

\* An engine event was handled between the first command and a second one that
\* was already waiting in the channel.
C13_Witness ==
    /\ handled_seq = 1
    /\ handled.op \in {"KadResult", "Gossipsub"}
    /\ Len(command_channel) = 1

\* The operations of C14 that failed.
FailedOp(h) ==
    \/ h.op = "SendMessage" /\ h.publish = "err"
    \/ h.op = "ConnectToPeer" /\ (~h.parsed \/ h.dial = "err")
    \/ h.op = "AddFriend" /\ ~IsPeerId(h.raw)
    \/ h.op = "Gossipsub" /\ h.data.format # "ChatMessage"
    \/ h.op = "KadResult" /\ ~h.res.ok

\* C14: the loop is left only by the step that finds the command channel
\* closed and empty; no handler, failed or not, leaves it.
C14_ExitsOnlyWhenClosed ==
    [][pc = "loop" /\ pc' # "loop" =>
          /\ pc' = "exited"
          /\ cmd_closed /\ command_channel = <<>>
          /\ handled' = handled /\ n_commands' = n_commands]_vars

\* A failed operation was handled and the loop is running, a command waiting.
C14_Witness ==
    /\ FailedOp(handled)
    /\ pc = "loop"
    /\ command_channel # <<>>

\* C15: no handler is ever left waiting to send into a full event channel.
C15_HandlersNeverWait ==
    ~(sending > 0 /\ event_channel = EVENT_CHANNEL_CAPACITY)

\* C16: a gossip payload that does not deserialize sends no event and leaves
\* friend set, queue and pending lookups as they were.
C16_UndecodableDropped ==
    [][\A data \in GossipPayloads :
          (handled'.op = "Gossipsub" /\ handled'.data = data
              /\ data.format # "ChatMessage") =>
              /\ emitted' = <<>>
              /\ UNCHANGED <<friend_ids, friend_queue, pending_friend_queries>>]_vars

\* An undecodable payload arrived while lookups were running.
C16_Witness ==
    /\ handled.op = "Gossipsub"
    /\ handled.data.format # "ChatMessage"
    /\ DOMAIN pending_friend_queries # {}

\* C17: a connection-established (closed) event for p sends exactly one
\* PeerConnected(p) (PeerDisconnected(p)) first, then exactly one FriendStatus
\* for p with online true (false) when p is a friend, and nothing more.
C17_ConnectionEvents ==
    \A established \in BOOLEAN :
        handled.op = (IF established THEN "ConnectionEstablished" ELSE "ConnectionClosed") =>
            LET p == handled.peer_id IN
            /\ emitted # <<>>
            /\ emitted[1] = (IF established THEN PeerConnected(p) ELSE PeerDisconnected(p))
            /\ \A i \in DOMAIN emitted :
                   i > 1 => /\ emitted[i].type = "FriendStatus"
                            /\ emitted[i].peer_id = p
                            /\ emitted[i].online = established
            /\ Len(emitted) = (IF p \in friend_ids THEN 2 ELSE 1)

\* A friend connected.
C17_Witness ==
    /\ handled.op = "ConnectionEstablished"
    /\ handled.peer_id \in friend_ids
    /\ Len(emitted) = 2

\* C21: the result delivered for a recorded query removes that entry and sends
\* exactly one FriendStatus, for the entry's peer; an entry leaves
\* pending_friend_queries in no other way and keeps its peer while it stays.
C21_RemovedByOwnResult ==
    [][/\ \A q \in DOMAIN pending_friend_queries :
             IF q \in DOMAIN pending_friend_queries'
             THEN pending_friend_queries'[q] = pending_friend_queries[q]
             ELSE /\ handled'.op = "KadResult"
                  /\ handled'.id = q
                  /\ handled'.peer_id = pending_friend_queries[q]
                  /\ DOMAIN pending_friend_queries \ DOMAIN pending_friend_queries' = {q}
       /\ resolved' # resolved =>
             /\ handled'.op = "KadResult"
             /\ handled'.id \in DOMAIN pending_friend_queries
             /\ handled'.id \notin DOMAIN pending_friend_queries'
             /\ Len(emitted') = 1
             /\ emitted'[1].type = "FriendStatus"
             /\ emitted'[1].peer_id = handled'.peer_id]_vars

\* A timed-out lookup was delivered while other lookups stayed recorded.
C21_Witness ==
    /\ handled.op = "KadResult"
    /\ ~handled.res.ok
    /\ handled.id \notin DOMAIN pending_friend_queries
    /\ DOMAIN pending_friend_queries # {}
    /\ Len(emitted) = 1

\* How often p occurs in the sequence q.
Occurrences(q, p) == Cardinality({i \in DOMAIN q : q[i] = p})

\* C22: the queue new() built holds every loaded friend once, and the startup
\* enqueue adds nothing to it: after startup every friend that parses is
\* counted once among the lookups started and the ids still queued, and one
\* that does not parse is queued at most once and has no lookup (admission
\* drops it when it reaches it).
C22_QueuedOnceAtStartup ==
    [][(pc = "new" /\ pc' = "loop") =>
          /\ Range(friend_queue) = friend_ids
          /\ \A p \in friend_ids :
                /\ Occurrences(friend_queue, p) = 1
                /\ IF IsPeerId(p)
                   THEN (started'[p] - started[p]) + Occurrences(friend_queue', p) = 1
                   ELSE /\ started'[p] = started[p]
                        /\ Occurrences(friend_queue', p) <= 1
                /\ Occurrences(Dispatched, p) = started'[p] - started[p]
          /\ IsSuffix(friend_queue', friend_queue)]_vars

\* Startup over a full friend list: three lookups started, the rest queued.
C22_Witness ==
    /\ handled.op = "Startup"
    /\ Cardinality(friend_ids \cap ValidPeerIds) > MAX_CONCURRENT_FRIEND_QUERIES
    /\ Cardinality(DOMAIN pending_friend_queries) = MAX_CONCURRENT_FRIEND_QUERIES
    /\ friend_queue # <<>>

\* C23: a ConnectToPeer command whose dial fails sends an event to the UI.
C23_DialFailureReported ==
    (handled.op = "ConnectToPeer" /\ handled.dial = "err") => emitted # <<>>

\* C24: no command the UI submits is lost, however many are submitted before
\* the loop takes them.
C24_NoCommandLost ==
    n_dropped = 0

\* C25: once a DCUtR "established" event for a peer has been handled, the peer
\* is not in failed_direct_connections.
C25_HolePunchClearsFailed ==
    (nat_call.op = "handle_dcutr_event" /\ nat_call.kind = "Established") =>
        nat_call.peer_id \notin failed_direct_connections

\* A retry_with_relay step for peer p that passes the early return: p is
\* neither in the connected set it was handed nor pending.
RetryAttempt(p) ==
    /\ nat_call'.op = "retry_with_relay"
    /\ nat_call'.peer_id = p
    /\ p \notin nat_call'.dialed_peers
    /\ p \notin DOMAIN pending_relay_retries

\* C26: with no relay known, a retry for an unconnected, non-pending peer
\* dials nothing and adds no pending entry; afterwards the relay set holds
\* every bootstrap peer, and nothing when there is no bootstrap peer.
C26_DiscoversBootstrapRelays ==
    [][\A p \in NatPeers :
          (RetryAttempt(p) /\ relay_peers = {}) =>
              /\ nat_dials' = <<>>
              /\ pending_relay_retries' = pending_relay_retries
              /\ bootstrap_peers \subseteq relay_peers'
              /\ (bootstrap_peers = {} => relay_peers' = {})]_vars

\* A retry found no relay and made the two bootstrap peers candidate relays.
C26_Witness ==
    /\ nat_call.op = "retry_with_relay"
    /\ nat_call.peer_id \notin nat_call.dialed_peers
    /\ nat_dials = <<>>
    /\ pending_relay_retries = << >>
    /\ relay_peers = bootstrap_peers
    /\ Cardinality(bootstrap_peers) = 2

\* C27: with a relay known, a retry for an unconnected, non-pending peer p
\* dials exactly one address, the circuit through some known relay to p, and
\* when the dial is accepted p's pending entry holds exactly that address.
C27_DialsOneCircuit ==
    [][\A p \in NatPeers :
          (RetryAttempt(p) /\ relay_peers # {}) =>
              /\ Len(nat_dials') = 1
              /\ \E r \in relay_peers : nat_dials'[1] = [relay |-> r, circuit_to |-> p]
              /\ nat_call'.dial_ok =>
                    /\ p \in DOMAIN pending_relay_retries'
                    /\ pending_relay_retries'[p] = nat_dials']_vars

\* An accepted relay dial, with the retry of another peer already pending.
C27_Witness ==
    /\ nat_call.op = "retry_with_relay"
    /\ nat_call.dial_ok
    /\ Len(nat_dials) = 1
    /\ nat_call.peer_id \in DOMAIN pending_relay_retries
    /\ Cardinality(DOMAIN pending_relay_retries) = 2

\* C28: a retry whose dial is rejected leaves no pending entry for the peer
\* and leaves pending retries, failed-direct set and relay set as they were.
C28_RejectedDialLeavesNoEntry ==
    [][\A p \in NatPeers :
          (RetryAttempt(p) /\ relay_peers # {} /\ ~nat_call'.dial_ok) =>
              /\ p \notin DOMAIN pending_relay_retries'
              /\ pending_relay_retries' = pending_relay_retries
              /\ failed_direct_connections' = failed_direct_connections
              /\ relay_peers' = relay_peers]_vars

\* A relay dial was rejected while another peer's retry is pending and the
\* peer is marked failed.
C28_Witness ==
    /\ nat_call.op = "retry_with_relay"
    /\ ~nat_call.dial_ok
    /\ nat_dials # <<>>
    /\ nat_call.peer_id \notin DOMAIN pending_relay_retries
    /\ nat_call.peer_id \in failed_direct_connections
    /\ DOMAIN pending_relay_retries # {}

\* C29: when the relayed dial to a peer has failed after it was started, the
\* next retry_with_relay for that peer, unconnected and with a relay known,
\* dials again.
C29_RetryAfterDialFailure ==
    [][(/\ nat_call.op = "OutgoingConnectionError"
        /\ nat_call'.op = "retry_with_relay"
        /\ nat_call'.peer_id = nat_call.peer_id
        /\ nat_call'.peer_id \notin nat_call'.dialed_peers
        /\ relay_peers # {})
          => nat_dials' # <<>>]_vars

\* C30: clear_failed_direct(p) leaves p neither failed nor pending, so that
\* has_failed_direct(p) is false, and leaves every other peer's entries and the
\* relay set as they were.
C30_ClearResetsOnlyPeer ==
    [][\A p \in NatPeers :
          (nat_call'.op = "clear_failed_direct" /\ nat_call'.peer_id = p) =>
              /\ ~has_failed_direct(failed_direct_connections', p)
              /\ p \notin DOMAIN pending_relay_retries'
              /\ failed_direct_connections' \cup {p} = failed_direct_connections \cup {p}
              /\ DOMAIN pending_relay_retries' \cup {p} = DOMAIN pending_relay_retries \cup {p}
              /\ \A q \in DOMAIN pending_relay_retries' :
                     pending_relay_retries'[q] = pending_relay_retries[q]
              /\ relay_peers' = relay_peers]_vars

\* A peer that was marked failed and had a pending retry was cleared while
\* another peer stays failed and pending.
C30_Witness ==
    /\ nat_call.op = "clear_failed_direct"
    /\ nat_call.had_failed
    /\ nat_call.had_pending
    /\ failed_direct_connections # {}
    /\ DOMAIN pending_relay_retries # {}

\* C31: no coordinator operation removes a peer from relay_peers, and a relay
\* whose reservation was accepted is a member once the event is handled (hence,
\* by the first part, in every later state).
C31_RelayPeersGrow ==
    [][/\ relay_peers \subseteq relay_peers'
       /\ (nat_call'.op = "handle_relay_event" /\ nat_call'.accepted)
            => nat_call'.peer_id \in relay_peers']_vars

\* C31 witness: an accepted reservation was handled while another relay was
\* known, and both are members.
C31_Witness ==
    /\ nat_call.op = "handle_relay_event"
    /\ nat_call.accepted
    /\ nat_call.peer_id \in relay_peers
    /\ relay_peers \ {nat_call.peer_id} # {}

\* C38: no relay-circuit address is dialed in which the relay peer and the
\* target peer are the same.
C38_RelayIsNotTarget ==
    \A i \in DOMAIN nat_dials : nat_dials[i].relay # nat_dials[i].circuit_to

\* C34: AddFriend with an identifier that is not a valid peer identifier leaves
\* the friend set as it was.
C34_InvalidAddFriendKeepsFriends ==
    [][\A p \in Ids \ ValidPeerIds :
          (handled'.op = "AddFriend" /\ handled'.raw = p) => friend_ids' = friend_ids]_vars

\* C37: a MessageReceived event whose sender is the local identity is produced
\* only by the handling of a local SendMessage command.
C37_LocalSenderOnlyFromSendMessage ==
    [][\A i \in DOMAIN emitted' :
          (emitted'[i].type = "MessageReceived" /\ emitted'[i].sender = LocalPeerId)
            => handled'.op = "SendMessage"]_vars

\* C35: while a friend p is connected, the most recent FriendStatus emitted for
\* p has online = true. Stated on the events of the handler that has just run:
\* the last FriendStatus it sent for a connected p is the most recent one.
C35_ConnectedFriendOnline ==
    \A p \in connections :
       \A i \in DOMAIN emitted :
          (/\ emitted[i].type = "FriendStatus"
           /\ emitted[i].peer_id = p
           /\ \A j \in DOMAIN emitted :
                 (j > i /\ emitted[j].type = "FriendStatus") => emitted[j].peer_id # p)
            => emitted[i].online

\* The connected-peer list holds exactly the peers whose last connect/disconnect
\* event was PeerConnected, each once.
PeerListMatchesEvents ==
    /\ \A p \in EnginePeers : (p \in Range(peers)) <=> (last_peer_event[p] = "PeerConnected")
    /\ \A i, j \in DOMAIN peers : peers[i] = peers[j] => i = j

\* C32: after every event the UI has processed, AppState.peers contains p iff
\* the most recent PeerConnected/PeerDisconnected event for p was PeerConnected,
\* and contains no peer twice; PeerDisconnected for an absent peer changes
\* nothing of AppState.
C32_PeerListTracksEvents ==
    [][/\ PeerListMatchesEvents'
       /\ (ui_event'.type = "PeerDisconnected" /\ ui_event'.peer_id \notin Range(peers))
            => UNCHANGED <<messages, peers, debug_events, peer_last_seen, friends>>]_vars

\* C32 witness: a peer connected twice and a disconnect arrived for a peer that
\* is not listed; the list holds the first once and not the second.
C32_Witness ==
    /\ ui_event.type = "PeerDisconnected"
    /\ last_peer_event[<<"b">>] = "PeerConnected"
    /\ last_peer_event[<<"c">>] = "PeerDisconnected"
    /\ peers = <<<<"b">>>>
    /\ \E i \in DOMAIN debug_events : debug_events[i].event_type = "PEER_REFRESHED"

\* C33: the debug event log holds at most 100 entries, and they are the most
\* recently added ones in insertion order: entry i of the log is the one made by
\* call number (calls so far - length + i) of add_debug_event.
C33_DebugLogKeepsNewest ==
    /\ Len(debug_events) <= MAX_DEBUG_EVENTS
    /\ Len(debug_events) = Min(n_debug_added, MAX_DEBUG_EVENTS)
    /\ \A i \in DOMAIN debug_events :
          debug_events[i].timestamp + Len(debug_events) = n_debug_added + i

\* C33 witness: more than 100 events were added; the log holds 100 and the
\* PEER_CONNECTED entry of the first connection has been evicted.
C33_Witness ==
    /\ n_debug_added > MAX_DEBUG_EVENTS
    /\ Len(debug_events) = MAX_DEBUG_EVENTS
    /\ debug_events[1].timestamp > 1
    /\ \A i \in DOMAIN debug_events : debug_events[i].event_type = "PEER_REFRESHED"

\* C36: the UI handles every MessageReceived event without aborting: after the
\* event is handled the UI thread is running and the message is the last of
\* the message list.
C36_MessageHandledWithoutAbort ==
    ui_event.type = "MessageReceived"
      => /\ ui_pc = "running"
         /\ messages # <<>>
         /\ messages[Len(messages)] = [sender |-> ui_event.sender,
                                       content |-> ui_event.content]

====
